---- MODULE Spec2Model ----
(***************************************************************************)
(* A state-machine model of the GitHub split-view extension: the layout    *)
(* toggler (useSplitMode), the README preview refresher                    *)
(* (useGitHubPreviewRefresh) and the editor discovery of the content       *)
(* script (initializeSplitView).                                           *)
(***************************************************************************)
EXTENDS Integers, Sequences, FiniteSets, TLC

(***************************************************************************)
(* The DOM of one editor wrapper.  Every selector of constants/selectors.ts *)
(* that the hooks use matches at most one element of this set.             *)
(***************************************************************************)
None == "none-element"
W == "wrapper"
H == "header"
WA == "writeArea"
P == "previewArea"
PH == "previewHost"
O == "footer"
SP == "span"
TA == "textarea"
AF == "after"
FA == "fileAttachment"
SC == "scrollContainer"
CM == "codemirror"
ED == "editorDiv"
CC == "cmContent"
DL == "showDiffLabel"
DB == "diffBox"
WB == "writeBucket"
TB == "toolbar"
PB == "previewBody"

Elems == {W, H, WA, P, PH, O, SP, TA, AF, FA, SC, CM, ED, CC, DL, DB, WB, TB, PB}

Props == {"display", "grid-column", "grid-template-columns", "grid-template-rows",
          "height", "max-height", "min-height", "overflow", "overflow-y",
          "opacity", "pointer-events", "box-sizing"}

\* The style attribute of an element; an absent attribute reads as the empty
\* style, as in getAttribute("style") || "".
NoStyle == [p \in Props |-> ""]

ViewTypes == {"issues", "readme", "oldpr"}

(***************************************************************************)
(* Bounds of the model.                                                    *)
(***************************************************************************)
\* how many min-height reset timers of the old PR UI may be pending at once
MaxResetTimers == 2
\* how many refresh timers and how many preview requests may be pending at once
MaxTimers == 2
\* how many editor wrappers the page shows, and how many popstate timers may be pending
MaxWrappers == 2
MaxReinitTimers == 1
\* the cap of the per-wrapper counters of roots and of processing runs
MaxCount == 3
MaxInFlight == 2
\* how far one step of the clock advances the time, in ms
TickStep == 500

\* the heights the environment reports (computed max-height, scrollHeight, viewport)
CssMaxHeights == {0, 500}
ScrollHeights == {0, 200}
AvailHeights == {200, 900}
OffsetHeights == {0, 150}

VARIABLES
    viewType,        \* which host UI variant the wrapper is
    kids,            \* the DOM tree: element -> sequence of its children
    style,           \* element -> its inline style
    isSplit,         \* App's isSplitMode state
    originalStyles,  \* useSplitMode's originalStyles map (element -> saved style)
    resizeListener,  \* whether handleResize is registered on window
    cssMaxH,         \* the textarea's max-height from the stylesheet (0: none)
    scrollH,         \* the textarea's scrollHeight
    avail,           \* viewport height minus the wrapper's offset from the top
    refreshTimeout,  \* old PR UI: the debounced refresh timer is pending
    inputListener,   \* old PR UI: handleTextareaChange is registered
    resetTimers,     \* old PR UI: pending min-height reset timers (never cleared)
    previewContent,  \* old PR UI: the preview area is .preview-content (PR description)
    waHidden,        \* old PR UI: the write area carries the hidden attribute
    previewClick,    \* old PR UI: a simulated Preview-tab click the host has not served yet
    firstStyle,      \* history: element -> style before the activation first touched it
    movedFrom,       \* history: where the preview was before an activation moved it
    survivors,       \* history: entries found in the map when an activation began
    doc,             \* README: the lines of the CodeMirror document
    previewHtml,     \* README: the innerHTML of the preview's markdown body
    timers,          \* README: remaining delays of the pending refresh timers
    updateTimeout,   \* README: the timer updateTimeout refers to (0: none pending)
    isRefreshing,    \* README: the current closure's in-flight flag
    observing,       \* README: the content observer is connected
    inFlight,        \* README: preview requests sent and not yet answered
    page,            \* README: what the page offers to extractGitHubData
    sinceMutation,   \* history: time since the last observed content mutation
    mutated,         \* history: the content was edited during this activation
    invoked,         \* history: refreshPreview invocations since the last mutation
    earlyInvoke,     \* history: refreshPreview ran before the delay had elapsed
    sent,            \* history: a request was sent during this activation
    lastOutcome,     \* history: how the last step's refresh ended ("none": no refresh ended)
    htmlBefore,      \* history: the preview HTML before the refresh that just ended
    allOk,           \* history: no request has failed so far
    foreign,         \* history: an answer to an earlier activation's request arrived in this one
    present,         \* discovery: which wrapper elements are in the document
    initialized,     \* discovery: which carry data-split-view-initialized="true"
    hasTabs,         \* discovery: which contain a tab container
    roots,           \* discovery: how many control roots each wrapper holds
    processed,       \* history: how often initializeSplitView went on to process each wrapper
    started,         \* discovery: the content script has run (the observer is connected)
    debounceTimeout, \* discovery: the debounced initializeSplitView is pending
    reinitTimers,    \* discovery: pending reinitialize timers set by popstate
    activeTab,       \* tabs: the host's active tab (1: Write or Edit, 2: Preview)
    marks,           \* tabs: the selection attributes the host has put on each tab
    tabsObserved,    \* tabs: useWrapperTabs' effect has run and its observer is connected
    isPreviewActive, \* tabs: useWrapperTabs' state
    rendered,        \* App: what the last render put into the control's container
    lastClicks,      \* history: the kinds of click the last step dispatched in the wrapper
    textEditor,      \* formatter: the editor element (its kind, text and selection range)
    origin,          \* history: the text and selection before the first toolbar click
    lastFormat,      \* history: the format type of the last toolbar click ("none": no click yet)
    clicks,          \* history: how many toolbar clicks have been made
    lastPath,        \* history: the branch the last click took (format, unformat, none)
    replacement,     \* history: the text the last click put in place of the selection
    dispatched,      \* history: the events the last click dispatched on the editor
    byFormatter,     \* history: what each formatter implementation makes of the last click
    cache,           \* useMarkdownFormatter's editor state: null, the wrapper's editor (live)
                     \* or an element the host has replaced since (stale)
    staleEditor,     \* the replaced element the cache still refers to
    formatted        \* history: the element the last click formatted (none, current, detached)

domVars == <<viewType, kids, style, cssMaxH, scrollH, avail, previewContent, waHidden>>
layoutVars == <<isSplit, originalStyles, resizeListener, refreshTimeout,
                inputListener, resetTimers, previewClick, firstStyle, movedFrom, survivors>>
refreshVars == <<doc, previewHtml, timers, updateTimeout, isRefreshing, observing, inFlight,
                 page, sinceMutation, mutated, invoked, earlyInvoke, sent,
                 lastOutcome, htmlBefore, allOk, foreign>>
discoveryVars == <<present, initialized, hasTabs, roots, processed, started, debounceTimeout,
                   reinitTimers>>
tabVars == <<activeTab, marks, tabsObserved, isPreviewActive>>
appVars == <<tabVars, rendered, lastClicks>>
fmtVars == <<textEditor, origin, lastFormat, clicks, lastPath, replacement, dispatched,
             byFormatter, cache, staleEditor, formatted>>
vars == <<domVars, layoutVars, refreshVars, discoveryVars, appVars, fmtVars>>

(***************************************************************************)
(* DOM helpers.                                                            *)
(***************************************************************************)
InSeq(x, s) == \E i \in 1..Len(s) : s[i] = x

Index(s, x) == CHOOSE i \in 1..Len(s) : s[i] = x

Remove(s, x) == SelectSeq(s, LAMBDA y : y # x)

\* Node.parentElement
Parent(k, el) ==
    IF \E c \in Elems : InSeq(el, k[c])
    THEN CHOOSE c \in Elems : InSeq(el, k[c])
    ELSE None

RECURSIVE IsInside(_, _, _)
IsInside(k, root, el) ==
    LET p == Parent(k, el)
    IN  p # None /\ (p = root \/ IsInside(k, root, p))

\* root.querySelector(selector of el)
QuerySelector(k, root, el) == IF IsInside(k, root, el) THEN el ELSE None

\* Node.nextSibling
NextSibling(k, el) ==
    LET p == Parent(k, el)
    IN  IF p = None THEN None
        ELSE LET i == Index(k[p], el)
             IN  IF i < Len(k[p]) THEN k[p][i + 1] ELSE None

Detach(k, node) == [c \in Elems |-> Remove(k[c], node)]

\* parent.insertBefore(node, ref): the node leaves its old place
InsertBefore(k, parent, node, ref) ==
    LET k1 == Detach(k, node)
        s == k1[parent]
        i == Index(s, ref)
    IN  [k1 EXCEPT ![parent] = SubSeq(s, 1, i - 1) \o <<node>> \o SubSeq(s, i, Len(s))]

\* parent.appendChild(node)
AppendChild(k, parent, node) ==
    LET k1 == Detach(k, node)
    IN  [k1 EXCEPT ![parent] = Append(k1[parent], node)]

\* where a node sits: its parent and its index among the parent's children
Position(k, el) ==
    LET p == Parent(k, el)
    IN  IF p = None THEN <<None, 0>> ELSE <<p, Index(k[p], el)>>

Max(a, b) == IF a >= b THEN a ELSE b

Put(m, el, v) == [x \in (DOMAIN m) \cup {el} |-> IF x = el THEN v ELSE m[x]]

EmptyMap == [x \in {} |-> NoStyle]

(***************************************************************************)
(* Style bookkeeping.  A machine state ms is the record the effect body    *)
(* threads through its statements: st (inline styles), m (the              *)
(* originalStyles map), k (the DOM tree), and the history fields o (style  *)
(* before the first touch) and mv (the preview's place before a move).     *)
(***************************************************************************)
Important(v) == v \o " !important"

Px(n) == Important(ToString(n) \o "px")

DefaultTextareaHeight == 400
MinEditorHeight == 300
BottomPadding == 20

PxValues == CssMaxHeights \cup ScrollHeights \cup OffsetHeights \cup {DefaultTextareaHeight}

\* parseFloat of a computed pixel length
ParsePx(s) == CHOOSE n \in PxValues : Px(n) = s

Touch(ms, el) ==
    IF el \in DOMAIN ms.o THEN ms ELSE [ms EXCEPT !.o = Put(ms.o, el, ms.st[el])]

\* styles.set(element, element.getAttribute("style") || "")
StylesSet(ms, el) ==
    LET t == Touch(ms, el)
    IN  [t EXCEPT !.m = Put(t.m, el, t.st[el])]

\* saveOriginalStyle: only the first capture of an element is kept
SaveOriginalStyle(ms, el) ==
    IF el \in DOMAIN ms.m THEN ms ELSE StylesSet(ms, el)

\* element.style.setProperty(property, value, "important") and element.style.x = value
SetStyle(ms, el, p, v) ==
    LET t == Touch(ms, el)
    IN  [t EXCEPT !.st[el][p] = v]

\* element.style.removeProperty(property)
RemoveProperty(ms, el, p) == SetStyle(ms, el, p, "")

FindHeader(k) == QuerySelector(k, W, H)

FindWriteArea(k) == QuerySelector(k, W, WA)

FindPreviewArea(k) == QuerySelector(k, W, P)

FindReadmeScrollContainer(k) ==
    IF QuerySelector(k, W, WA) = None THEN None
    ELSE IF QuerySelector(k, WA, FA) = None THEN None
    ELSE QuerySelector(k, FA, SC)

\* calculateTextareaHeight: the computed max-height (an inline !important value
\* wins over the stylesheet's), else scrollHeight, else the default
CalculateTextareaHeight(st, cssMax, scrollHeight) ==
    LET inline == st[TA]["max-height"]
        maxHeightPx == IF inline # "" THEN ParsePx(inline) ELSE cssMax
    IN  IF maxHeightPx # 0 THEN maxHeightPx
        ELSE IF scrollHeight # 0 THEN scrollHeight
        ELSE DefaultTextareaHeight

\* calculateEditorHeight: a is viewportHeight - offsetFromTop
CalculateEditorHeight(a) == Max(a - BottomPadding, MinEditorHeight)

\* children.forEach: hide every child except the write area and the header
RECURSIVE HideChildren(_, _, _, _, _)
HideChildren(ms, children, i, header, writeArea) ==
    IF i > Len(children) THEN ms
    ELSE LET child == children[i]
             next == IF child # writeArea /\ child # header
                     THEN SetStyle(StylesSet(ms, child), child, "display", Important("none"))
                     ELSE ms
         IN  HideChildren(next, children, i + 1, header, writeArea)

MovePreviewAppend(ms, container, editor) ==
    IF Parent(ms.k, P) # container
    THEN [ms EXCEPT !.mv = Position(ms.k, P), !.k = AppendChild(ms.k, container, P)]
    ELSE ms

\* move the preview into the container, right after the editor node, unless it
\* is in the container already
MovePreview(ms, container, editor) ==
    IF Parent(ms.k, P) # container
    THEN [ms EXCEPT !.mv = Position(ms.k, P),
                    !.k = IF NextSibling(ms.k, editor) # None
                          THEN InsertBefore(ms.k, container, P, NextSibling(ms.k, editor))
                          ELSE AppendChild(ms.k, container, P)]
    ELSE ms

ShowHeader(ms, header, isReadmeEditor) ==
    IF header = None THEN ms
    ELSE LET a == SetStyle(StylesSet(ms, header), header, "display", Important("flex"))
         IN  IF isReadmeEditor THEN a ELSE SetStyle(a, header, "grid-column", "1 / 3")

ReadmePreview(ms, previewArea) ==
    IF previewArea = None THEN ms
    ELSE LET a == StylesSet(ms, previewArea)
             editorDiv == QuerySelector(a.k, CM, ED)
             b == IF editorDiv # None THEN MovePreview(a, CM, editorDiv) ELSE a
             c == SetStyle(b, previewArea, "display", Important("block"))
             d == SetStyle(c, previewArea, "overflow-y", Important("auto"))
         IN  SetStyle(d, previewArea, "height", Important("100%"))

ReadmeCodeMirror(ms, writeArea, previewArea) ==
    LET codemirror == QuerySelector(ms.k, writeArea, CM)
    IN  IF codemirror = None THEN ms
        ELSE LET a == StylesSet(ms, codemirror)
                 b == SetStyle(a, codemirror, "display", Important("grid"))
                 c == SetStyle(b, codemirror, "grid-template-columns", Important("50% 50%"))
                 d == SetStyle(c, codemirror, "height", Important("100%"))
             IN  ReadmePreview(d, previewArea)

\* the README branch of the effect
ActivateReadme(ms, writeArea, previewArea, scroll, a) ==
    LET s1 == StylesSet(ms, scroll)
        s2 == SetStyle(s1, scroll, "height", Px(CalculateEditorHeight(a)))
        s3 == SetStyle(s2, scroll, "overflow", Important("auto"))
    IN  IF writeArea = None THEN s3
        ELSE ReadmeCodeMirror(SetStyle(s3, writeArea, "display", Important("block")),
                              writeArea, previewArea)

IssuesTextarea(ms, textarea, cssMax, scrollHeight) ==
    IF textarea = None THEN ms
    ELSE LET a == StylesSet(ms, textarea)
             h == CalculateTextareaHeight(a.st, cssMax, scrollHeight)
             b == SetStyle(a, textarea, "height", Px(h))
             c == SetStyle(b, textarea, "max-height", Px(h))
         IN  RemoveProperty(c, textarea, "box-sizing")

\* the preview step of the effect taking the preview's height from scrollHeight
IssuesPreviewScrollHeight(ms, previewArea, span, textarea, cssMax, scrollHeight) ==
    IF previewArea = None \/ span = None THEN ms
    ELSE LET a == StylesSet(ms, previewArea)
             b == MovePreview(a, WA, span)
             c == SetStyle(b, previewArea, "display", Important("block"))
             d == SetStyle(c, previewArea, "overflow-y", Important("auto"))
         IN  IF textarea = None THEN d
             ELSE SetStyle(d, previewArea, "height",
                           Px(IF scrollHeight # 0 THEN scrollHeight
                              ELSE DefaultTextareaHeight))

IssuesPreview(ms, previewArea, span, textarea, cssMax, scrollHeight) ==
    IF previewArea = None \/ span = None THEN ms
    ELSE LET a == StylesSet(ms, previewArea)
             b == MovePreview(a, WA, span)
             c == SetStyle(b, previewArea, "display", Important("block"))
             d == SetStyle(c, previewArea, "overflow-y", Important("auto"))
         IN  IF textarea = None THEN d
             ELSE SetStyle(d, previewArea, "height",
                           Px(CalculateTextareaHeight(d.st, cssMax, scrollHeight)))

\* the Issues/Comments branch of the effect
ActivateIssues(ms, writeArea, previewArea, cssMax, scrollHeight) ==
    LET w1 == RemoveProperty(ms, W, "display")
        w2 == RemoveProperty(w1, W, "grid-template-columns")
        w3 == RemoveProperty(w2, W, "grid-template-rows")
    IN  IF writeArea = None THEN w3
        ELSE LET a == StylesSet(w3, writeArea)
                 b == SetStyle(a, writeArea, "display", Important("grid"))
                 c == SetStyle(b, writeArea, "grid-template-columns", Important("50% 50%"))
                 d == SetStyle(c, writeArea, "height", Important("100%"))
                 span == QuerySelector(d.k, writeArea, SP)
                 textarea == QuerySelector(d.k, writeArea, TA)
                 e == IF span = None THEN d
                      ELSE SetStyle(StylesSet(d, span), span, "display", Important("block"))
                 f == IssuesTextarea(e, textarea, cssMax, scrollHeight)
             IN  IssuesPreview(f, previewArea, span, textarea, cssMax, scrollHeight)

\* showDiffLabel.closest(SHOW_DIFF_CONTAINER): the nearest BlobEditHeader box
ShowDiffContainer(k) ==
    IF QuerySelector(k, W, DL) = None THEN None
    ELSE IF IsInside(k, DB, DL) THEN DB
    ELSE IF IsInside(k, H, DL) THEN H
    ELSE None

HideShowDiff(ms) ==
    LET container == ShowDiffContainer(ms.k)
    IN  IF container = None THEN ms
        ELSE LET a == StylesSet(ms, container)
                 b == SetStyle(a, container, "opacity", Important("0"))
             IN  SetStyle(b, container, "pointer-events", Important("none"))

\* the isSplit branch of useSplitMode's effect, for the Issues and README editors
SplitModeOn(ms, cssMax, scrollHeight, a) ==
    LET s0 == StylesSet(ms, W)
        header == FindHeader(s0.k)
        writeArea == FindWriteArea(s0.k)
        previewArea == FindPreviewArea(s0.k)
        scroll == FindReadmeScrollContainer(s0.k)
        s1 == HideChildren(s0, s0.k[W], 1, header, writeArea)
        s2 == ShowHeader(s1, header, scroll # None)
        s3 == IF scroll # None
              THEN ActivateReadme(s2, writeArea, previewArea, scroll, a)
              ELSE ActivateIssues(s2, writeArea, previewArea, cssMax, scrollHeight)
    IN  HideShowDiff(s3)

\* element.setAttribute("style", style) for every entry of the map
RestoreStyles(st, m) == [el \in Elems |-> IF el \in DOMAIN m THEN m[el] ELSE st[el]]

(***************************************************************************)
(* The old PR UI (applyOldPRSplitMode and its helpers).                    *)
(***************************************************************************)
\* calculateTextareaHeightOldUI
CalculateTextareaHeightOldUI(offsetHeight, scrollHeight) ==
    IF offsetHeight > 0 THEN offsetHeight
    ELSE IF scrollHeight > 0 THEN scrollHeight
    ELSE DefaultTextareaHeight

\* resetPreviewBodyMinHeight
ResetPreviewBodyMinHeight(ms) ==
    IF QuerySelector(ms.k, P, PB) = None THEN ms
    ELSE SetStyle(SaveOriginalStyle(ms, PB), PB, "min-height", Important("0"))

\* the PR-description branch is taken when the wrapper holds .preview-content
\* and the write area holds a write bucket
DescriptionBranch(k, isPreviewContent) ==
    isPreviewContent /\ QuerySelector(k, WA, WB) # None

\* the textarea applyOldPRSplitMode listens to
OldPRTextarea(k, isPreviewContent) ==
    IF DescriptionBranch(k, isPreviewContent)
    THEN QuerySelector(k, WB, TA)
    ELSE QuerySelector(k, WA, TA)

OldPRPreviewHeight(ms, textarea, offsetHeight, scrollHeight) ==
    IF textarea = None THEN ms
    ELSE SetStyle(ms, P, "height",
                  Px(CalculateTextareaHeightOldUI(offsetHeight, scrollHeight)))

\* the style part of applyOldPRSplitMode
ApplyOldPRSplitMode(ms, header, isPreviewContent, offsetHeight, scrollHeight) ==
    LET s0 == SaveOriginalStyle(ms, W)
        s1 == IF header # None THEN SaveOriginalStyle(s0, header) ELSE s0
        toolbar == QuerySelector(s1.k, W, TB)
        s2 == IF isPreviewContent /\ toolbar # None
              THEN SaveOriginalStyle(s1, toolbar) ELSE s1
        desc == DescriptionBranch(s2.k, isPreviewContent)
        s3 == SetStyle(SaveOriginalStyle(s2, WA), WA, "display",
                       Important(IF desc THEN "contents" ELSE "block"))
        s4 == IF desc
              THEN SetStyle(SaveOriginalStyle(s3, WB), WB, "display", Important("block"))
              ELSE s3
        s5 == SetStyle(SaveOriginalStyle(s4, P), P, "display", Important("block"))
    IN  OldPRPreviewHeight(s5, OldPRTextarea(s5.k, isPreviewContent),
                           offsetHeight, scrollHeight)

\* useSplitMode hands the old PR wrapper to applyOldPRSplitMode when both
\* areas are found
OldPRDispatch(ms, isPreviewContent, offsetHeight, scrollHeight) ==
    IF FindWriteArea(ms.k) = None \/ FindPreviewArea(ms.k) = None THEN ms
    ELSE ApplyOldPRSplitMode(ms, FindHeader(ms.k), isPreviewContent,
                             offsetHeight, scrollHeight)

OldPRApplied(k) == FindWriteArea(k) # None /\ FindPreviewArea(k) # None

(***************************************************************************)
(* Initial DOMs of the three host UI variants.                             *)
(***************************************************************************)
EmptyKids == [e \in Elems |-> <<>>]

Opt(b, el) == IF b THEN <<el>> ELSE <<>>

PreviewPlaces == {"direct", "nested", "absent"}

PreviewSlot(previewAt) ==
    IF previewAt = "direct" THEN <<P>>
    ELSE IF previewAt = "nested" THEN <<PH>>
    ELSE <<>>

IssuesDom(hasHeader, previewAt, hasSpan, hasAfter) ==
    [EmptyKids EXCEPT
        ![W] = Opt(hasHeader, H) \o <<WA>> \o PreviewSlot(previewAt) \o <<O>>,
        ![PH] = Opt(previewAt = "nested", P),
        ![WA] = Opt(hasSpan, SP) \o Opt(hasAfter, AF),
        ![SP] = <<TA>>]

ShowDiffPlaces == {"nowhere", "header", "box"}

ReadmeDom(hasHeader, previewAt, showDiff, hasCM, hasAfter, hasContent, hasBody) ==
    [EmptyKids EXCEPT
        ![W] = Opt(hasHeader, H) \o <<WA>> \o PreviewSlot(previewAt) \o <<O>>,
        ![PH] = Opt(previewAt = "nested", P),
        ![H] = IF showDiff = "header" THEN <<DL>>
               ELSE IF showDiff = "box" THEN <<DB>> ELSE <<>>,
        ![DB] = Opt(showDiff = "box", DL),
        ![WA] = <<FA>>,
        ![FA] = <<SC>>,
        ![SC] = Opt(hasCM, CM),
        ![CM] = <<ED>> \o Opt(hasAfter, AF),
        ![ED] = Opt(hasContent, CC),
        ![P] = Opt(hasBody, PB)]

OldPRDom(hasBucket, hasBody) ==
    [EmptyKids EXCEPT
        ![W] = <<H, TB, WA, P, O>>,
        ![WA] = IF hasBucket THEN <<WB>> ELSE <<TA>>,
        ![WB] = Opt(hasBucket, TA),
        ![P] = Opt(hasBody, PB)]

HostDisplays == {"", "none"}

InitStyle(vt, previewDisplay) ==
    [el \in Elems |->
        IF el = P THEN [NoStyle EXCEPT !["display"] = previewDisplay]
        ELSE IF el = TA /\ vt = "issues" THEN [NoStyle EXCEPT !["box-sizing"] = "content-box"]
        ELSE IF el = PB THEN [NoStyle EXCEPT !["min-height"] = "100px"]
        ELSE NoStyle]

InitDom ==
    /\ viewType \in ViewTypes
    /\ \/ /\ viewType = "issues"
          /\ \E hasHeader \in BOOLEAN, previewAt \in PreviewPlaces,
                hasSpan \in BOOLEAN, hasAfter \in BOOLEAN :
                kids = IssuesDom(hasHeader, previewAt, hasSpan, hasAfter)
          /\ previewContent = FALSE
          /\ waHidden = FALSE
          /\ cssMaxH \in CssMaxHeights
          /\ scrollH \in ScrollHeights
       \/ /\ viewType = "readme"
          /\ \E hasHeader \in BOOLEAN, previewAt \in PreviewPlaces,
                showDiff \in ShowDiffPlaces, hasCM \in BOOLEAN, hasAfter \in BOOLEAN :
                /\ showDiff # "nowhere" => hasHeader
                /\ kids = ReadmeDom(hasHeader, previewAt, showDiff, hasCM, hasAfter, TRUE, TRUE)
          /\ previewContent = FALSE
          /\ waHidden = FALSE
          /\ cssMaxH = 0
          /\ scrollH = 0
       \/ /\ viewType = "oldpr"
          /\ \E hasBucket \in BOOLEAN, hasBody \in BOOLEAN :
                kids = OldPRDom(hasBucket, hasBody)
          /\ previewContent \in BOOLEAN
          /\ waHidden = TRUE
          /\ cssMaxH = 0
          /\ scrollH \in ScrollHeights
    /\ \E d \in HostDisplays : style = InitStyle(viewType, d)
    /\ avail \in AvailHeights

\* No toolbar button has been clicked
FormatterIdle ==
    /\ textEditor = [kind |-> "textarea", value |-> <<>>, selectionStart |-> 0, selectionEnd |-> 0]
    /\ origin = [value |-> <<>>, selectionStart |-> 0, selectionEnd |-> 0]
    /\ lastFormat = "none"
    /\ clicks = 0
    /\ lastPath = "none"
    /\ replacement = <<>>
    /\ dispatched = {}
    /\ byFormatter = <<>>
    /\ cache = "null"
    /\ staleEditor = textEditor
    /\ formatted = "none"

InitLayout ==
    /\ isSplit = FALSE
    /\ originalStyles = EmptyMap
    /\ resizeListener = FALSE
    /\ refreshTimeout = FALSE
    /\ inputListener = FALSE
    /\ resetTimers = 0
    /\ previewClick = FALSE
    /\ firstStyle = EmptyMap
    /\ movedFrom = <<None, 0>>
    /\ survivors = {}

InitRefresh ==
    /\ previewHtml = "<p>old</p>"
    /\ timers = <<>>
    /\ updateTimeout = 0
    /\ isRefreshing = FALSE
    /\ observing = FALSE
    /\ inFlight = <<>>
    /\ sinceMutation = 0
    /\ mutated = FALSE
    /\ invoked = 0
    /\ earlyInvoke = FALSE
    /\ sent = FALSE
    /\ lastOutcome = "none"
    /\ htmlBefore = "<p>old</p>"
    /\ allOk = TRUE
    /\ foreign = FALSE

FullPage == [payload |-> TRUE, parses |-> TRUE, previewEditPath |-> TRUE, currentOid |-> TRUE,
             fileName |-> TRUE, csrf |-> TRUE, tokenInput |-> FALSE]

(***************************************************************************)
(* The tab-state observer (useWrapperTabs) and the App component.          *)
(***************************************************************************)
Tabs == {1, 2}

\* the labels of the host's tab buttons, in document order
TabLabels(vt) == IF vt = "readme" THEN <<"Edit", "Preview">> ELSE <<"Write", "Preview">>

\* cls: class "selected" (README: data-selected); aria: aria-selected="true"
\* (README: aria-current="true" on the item's button)
NoMark == [cls |-> FALSE, aria |-> FALSE]

MarkKinds == {"class", "aria", "both"}

Mark(kind) == [cls |-> kind \in {"class", "both"}, aria |-> kind \in {"aria", "both"}]

\* the host marks the active tab and no other
HostMarks(t, kind) == [i \in Tabs |-> IF i = t THEN Mark(kind) ELSE NoMark]

Selected(m) == m.cls \/ m.aria

\* the position, among the header's tab buttons, of the first element that
\* SELECTORS.TAB_BUTTON ('button[role="tab"]') matches
TAB_BUTTON == 1

RECURSIVE SegmentedActive(_, _, _, _)
\* checkTab's forEach over the segmented control's items (index = i - 1)
SegmentedActive(labels, m, i, isActive) ==
    IF i > Len(labels) THEN isActive
    ELSE SegmentedActive(labels, m, i + 1,
                         IF labels[i] = "Preview" \/ i - 1 = 1
                         THEN Selected(m[i]) ELSE isActive)

\* checkTab: regular tabs where the header has them, else the segmented control
CheckTab(vt, m) ==
    IF vt # "readme" THEN Selected(m[TAB_BUTTON])
    ELSE SegmentedActive(TabLabels(vt), m, 1, FALSE)

RenderAppShown(previewActive, split) == [display |-> "flex", toolbar |-> split]

\* App's render: the control's container and the conditional Toolbar
RenderApp(previewActive, split) ==
    [display |-> IF previewActive THEN "flex" ELSE "none", toolbar |-> split]

\* the click targets inside the wrapper: the text of the clicked element and
\* whether it is, or lies in, a button
ClickTargets(vt) ==
    [text : {"", TabLabels(vt)[1], TabLabels(vt)[2]}, inButton : BOOLEAN]

IsTabButton(vt, target) ==
    target.inButton /\ target.text \in {TabLabels(vt)[1], TabLabels(vt)[2]}

HandleTabClickUntrusted(trusted, target, split) ==
    IF target.text \in {"Edit", "Write", "Preview"} /\ target.inButton THEN FALSE ELSE split

HandleTabClickWriteOnly(trusted, target, split) ==
    IF ~trusted THEN split
    ELSE IF target.text \in {"Edit", "Write"} /\ target.inButton THEN FALSE
    ELSE split

\* handleTabClick: the value of isSplitMode after the handler
HandleTabClick(trusted, target, split) ==
    IF ~trusted THEN split
    ELSE IF target.text \in {"Edit", "Write", "Preview"} /\ target.inButton THEN FALSE
    ELSE split

\* clickPreviewTab's previewTab.click(), as the wrapper's click listener sees it
ScriptClick(split) == HandleTabClick(FALSE, [text |-> "Preview", inButton |-> TRUE], split)

\* the tab whose selection makes checkTab report the Preview tab as active
ShownTab(vt) == IF vt = "readme" THEN 2 ELSE TAB_BUTTON

\* The App is mounted and its control is displayed
AppShown ==
    /\ activeTab = ShownTab(viewType)
    /\ marks = HostMarks(activeTab, "aria")
    /\ tabsObserved = (FindHeader(kids) # None)
    /\ isPreviewActive = (tabsObserved /\ CheckTab(viewType, marks))
    /\ rendered = RenderApp(isPreviewActive, FALSE)
    /\ lastClicks = {}

Wrappers == 1..MaxWrappers

\* The content script has found the first wrapper and mounted its control
Discovered ==
    /\ present = [w \in Wrappers |-> w = 1]
    /\ initialized = [w \in Wrappers |-> w = 1]
    /\ hasTabs = [w \in Wrappers |-> w = 1]
    /\ roots = [w \in Wrappers |-> IF w = 1 THEN 1 ELSE 0]
    /\ processed = [w \in Wrappers |-> IF w = 1 THEN 1 ELSE 0]
    /\ started = TRUE
    /\ debounceTimeout = FALSE
    /\ reinitTimers = 0

Init ==
    /\ InitDom
    /\ InitLayout
    /\ FormatterIdle
    /\ InitRefresh
    /\ doc = <<"a">>
    /\ page = FullPage
    /\ Discovered
    /\ AppShown

(***************************************************************************)
(* The README preview refresher (useGitHubPreviewRefresh, githubApiHelpers). *)
(***************************************************************************)
DEBOUNCE_DELAY == 1000

Docs == {<<"">>, <<"a">>, <<"a", "b">>}

RECURSIVE Join(_)
\* lines.map(line => line.textContent || "").join("\n")
Join(lines) ==
    IF Len(lines) = 0 THEN ""
    ELSE IF Len(lines) = 1 THEN lines[1]
    ELSE lines[1] \o "\n" \o Join(Tail(lines))

\* extractCodeMirrorContent: null ("" here, as falsy) without .cm-content
ExtractCodeMirrorContent(k, lines) ==
    IF QuerySelector(k, CM, CC) = None THEN "" ELSE Join(lines)

\* what the host's preview endpoint renders for a markdown text
Render(text) == "<p>" \o text \o "</p>"

\* The page data extractGitHubData reads: whether the payload script exists,
\* whether its JSON parses, which fields it holds, and the fallback input.
Pages == [payload : BOOLEAN, parses : BOOLEAN, previewEditPath : BOOLEAN,
          currentOid : BOOLEAN, fileName : BOOLEAN, csrf : BOOLEAN, tokenInput : BOOLEAN]

NoData == [previewUrl |-> FALSE, commitOid |-> FALSE, fileName |-> FALSE,
           authenticityToken |-> FALSE]

\* extractGitHubData: which of the four values come back non-null
ExtractGitHubData(pg) ==
    IF ~pg.payload \/ ~pg.parses THEN NoData
    ELSE [previewUrl |-> pg.previewEditPath,
          commitOid |-> pg.currentOid,
          fileName |-> pg.fileName,
          authenticityToken |->
              \/ (pg.previewEditPath /\ pg.csrf)
              \/ pg.tokenInput]

DataCompleteNoToken(d) == d.previewUrl /\ d.commitOid /\ d.fileName

\* !previewUrl || !commitOid || !fileName || !authenticityToken
DataComplete(d) == d.previewUrl /\ d.commitOid /\ d.fileName /\ d.authenticityToken

\* the effect goes on to build its closure
RefreshEnabled(vt, k, d) ==
    /\ vt = "readme"
    /\ QuerySelector(k, W, CM) # None
    /\ QuerySelector(k, W, P) # None
    /\ DataComplete(d)

ClearTimeoutNoop(ts, h) == ts

\* clearTimeout(updateTimeout)
ClearTimeout(ts, h) ==
    IF h = 0 THEN ts ELSE SubSeq(ts, 1, h - 1) \o SubSeq(ts, h + 1, Len(ts))

Outcomes == {"ok", "notOk", "noHtml", "throws"}
Failures == {"notOk", "noHtml", "throws", "empty"}

FlagAfterNoFinally(flag, outcome) == IF outcome = "ok" THEN FALSE ELSE flag

\* finally { isRefreshing = false }
FlagAfter(flag, outcome) == FALSE

\* the html the preview shows after updatePreviewHTML
UpdatePreviewHTML(k, html, old) ==
    LET previewArea == QuerySelector(k, W, P)
        markdownBody == IF previewArea = None THEN None ELSE QuerySelector(k, previewArea, PB)
    IN  IF markdownBody # None THEN html ELSE old

\* fetchPreview's result, null ("" here) unless the response is OK and has html
FetchPreview(content, outcome) == IF outcome = "ok" THEN Render(content) ELSE ""

\* the part of refreshPreview that runs once the request is answered
RefreshAnswered(k, content, outcome, old) ==
    LET result == FetchPreview(content, outcome)
    IN  IF outcome # "throws" /\ result # "" THEN UpdatePreviewHTML(k, result, old) ELSE old

Min(a, b) == IF a < b THEN a ELSE b

Disown(reqs) == [i \in 1..Len(reqs) |-> [reqs[i] EXCEPT !.own = FALSE]]

(***************************************************************************)
(* The manual formatter (formatMarkdown, formatText, formatContentEditable, *)
(* formattingHelpers, getFormatSymbols).  A text is a sequence of          *)
(* characters; positions count from 0 as in the code.                      *)
(***************************************************************************)
MaxLen == 3
MaxClicks == 2

\* the characters of the texts the user has typed
Chars == {"a", "\n", "*"}

Texts == UNION {[1..n -> Chars] : n \in 0..MaxLen}

FORMAT_TYPES == {"heading", "bold", "italic", "quote", "code", "link", "ul", "ol", "task",
                 "mention", "reference"}

\* what a toolbar button may pass as the format type
FormatTypes == FORMAT_TYPES \cup {"other"}

EditorKinds == {"textarea", "contenteditable", "other"}

Clamp(n, len) == IF n < 0 THEN 0 ELSE IF n > len THEN len ELSE n

\* String.prototype.substring(a, b): both indices are clamped, and swapped when a > b
Substring(s, a, b) ==
    LET x == Clamp(a, Len(s))
        y == Clamp(b, Len(s))
    IN  SubSeq(s, Min(x, y) + 1, Max(x, y))

\* String.prototype.substring(a)
SubstringFrom(s, a) == Substring(s, a, Len(s))

StartsWith(s, x) == Len(x) <= Len(s) /\ SubSeq(s, 1, Len(x)) = x

EndsWith(s, x) == Len(x) <= Len(s) /\ SubSeq(s, Len(s) - Len(x) + 1, Len(s)) = x

Includes(s, c) == \E i \in 1..Len(s) : s[i] = c

RECURSIVE Split(_)
\* selectedText.split("\n")
Split(s) ==
    IF ~Includes(s, "\n") THEN <<s>>
    ELSE LET i == CHOOSE i \in 1..Len(s) : s[i] = "\n" /\ \A j \in 1..(i - 1) : s[j] # "\n"
         IN  <<SubSeq(s, 1, i - 1)>> \o Split(SubSeq(s, i + 1, Len(s)))

RECURSIVE JoinLines(_)
\* lines.join("\n")
JoinLines(lines) ==
    IF Len(lines) = 0 THEN <<>>
    ELSE IF Len(lines) = 1 THEN lines[1]
    ELSE lines[1] \o <<"\n">> \o JoinLines(Tail(lines))

DigitChars == <<"0", "1", "2", "3", "4", "5", "6", "7", "8", "9">>

RECURSIVE NumberToString(_)
\* `${index + 1}`
NumberToString(n) ==
    IF n < 10 THEN <<DigitChars[n + 1]>>
    ELSE NumberToString(n \div 10) \o <<DigitChars[(n % 10) + 1]>>

\* the character U+0060
BACKTICK == "backtick"

GetFormatSymbols(formatType) ==
    CASE formatType = "heading" ->
           [prefix |-> <<"#", "#", "#", " ">>, suffix |-> <<>>, isMultilineFormat |-> FALSE]
      [] formatType = "bold" ->
           [prefix |-> <<"*", "*">>, suffix |-> <<"*", "*">>, isMultilineFormat |-> FALSE]
      [] formatType = "italic" ->
           [prefix |-> <<"_">>, suffix |-> <<"_">>, isMultilineFormat |-> FALSE]
      [] formatType = "quote" ->
           [prefix |-> <<">", " ">>, suffix |-> <<>>, isMultilineFormat |-> TRUE]
      [] formatType = "code" ->
           [prefix |-> <<BACKTICK>>, suffix |-> <<BACKTICK>>, isMultilineFormat |-> FALSE]
      [] formatType = "link" ->
           [prefix |-> <<"[">>, suffix |-> <<"]", "(", "u", "r", "l", ")">>,
            isMultilineFormat |-> FALSE]
      [] formatType = "ul" ->
           [prefix |-> <<"-", " ">>, suffix |-> <<>>, isMultilineFormat |-> TRUE]
      [] formatType = "ol" ->
           [prefix |-> <<"1", ".", " ">>, suffix |-> <<>>, isMultilineFormat |-> TRUE]
      [] formatType = "task" ->
           [prefix |-> <<"-", " ", "[", " ", "]", " ">>, suffix |-> <<>>,
            isMultilineFormat |-> TRUE]
      [] formatType = "mention" ->
           [prefix |-> <<"@">>, suffix |-> <<>>, isMultilineFormat |-> FALSE]
      [] formatType = "reference" ->
           [prefix |-> <<"#">>, suffix |-> <<>>, isMultilineFormat |-> FALSE]
      [] OTHER ->
           [prefix |-> <<>>, suffix |-> <<>>, isMultilineFormat |-> FALSE]

ShouldUnformat(selectedText, prefix, suffix) ==
    IF Len(selectedText) = 0 THEN FALSE
    ELSE IF Len(prefix) > 0 /\ Len(suffix) > 0
         THEN StartsWith(selectedText, prefix) /\ EndsWith(selectedText, suffix)
    ELSE IF Len(prefix) > 0 /\ Len(suffix) = 0
         THEN StartsWith(selectedText, prefix)
    ELSE FALSE

UnformatText(selectedText, prefix, suffix) ==
    Substring(selectedText, Len(prefix), Len(selectedText) - Len(suffix))

\* applyFormatting that gives every line of an ordered list the same prefix
ApplyFormattingSamePrefix(selectedText, formatType, prefix, suffix, isMultilineFormat) ==
    IF Len(selectedText) = 0 THEN prefix \o suffix
    ELSE IF Includes(selectedText, "\n") /\ isMultilineFormat
         THEN LET lines == Split(selectedText)
              IN  JoinLines([i \in 1..Len(lines) |-> prefix \o lines[i]])
    ELSE prefix \o selectedText \o suffix

ApplyFormatting(selectedText, formatType, prefix, suffix, isMultilineFormat) ==
    IF Len(selectedText) = 0 THEN prefix \o suffix
    ELSE IF Includes(selectedText, "\n") /\ isMultilineFormat
         THEN LET lines == Split(selectedText)
              IN  IF formatType = "ol"
                  THEN JoinLines([i \in 1..Len(lines) |->
                                     NumberToString(i) \o <<".", " ">> \o lines[i]])
                  ELSE JoinLines([i \in 1..Len(lines) |-> prefix \o lines[i]])
    ELSE prefix \o selectedText \o suffix

\* getTextareaSelection that takes the text after the selection from its start
GetTextareaSelectionFromStart(ta) ==
    [selectedText |-> Substring(ta.value, ta.selectionStart, ta.selectionEnd),
     beforeText   |-> Substring(ta.value, 0, ta.selectionStart),
     afterText    |-> SubstringFrom(ta.value, ta.selectionStart),
     start        |-> ta.selectionStart,
     end          |-> ta.selectionEnd]

GetTextareaSelection(ta) ==
    [selectedText |-> Substring(ta.value, ta.selectionStart, ta.selectionEnd),
     beforeText   |-> Substring(ta.value, 0, ta.selectionStart),
     afterText    |-> SubstringFrom(ta.value, ta.selectionEnd),
     start        |-> ta.selectionStart,
     end          |-> ta.selectionEnd]

\* What a click leaves behind: the editor's text and selection, the branch
\* taken, the text put in place of the selection, the events dispatched
Outcome(ed, value, selectionStart, selectionEnd, path, text, events) ==
    [editor |-> [ed EXCEPT !.value = value, !.selectionStart = selectionStart,
                           !.selectionEnd = selectionEnd],
     path |-> path, replacement |-> text, events |-> events]

FormatText(formatType, textarea) ==
    LET selection == GetTextareaSelection(textarea)
        selectedText == selection.selectedText
        beforeText == selection.beforeText
        afterText == selection.afterText
        start == selection.start
        sym == GetFormatSymbols(formatType)
    IN  IF ShouldUnformat(selectedText, sym.prefix, sym.suffix)
        THEN LET newSelectedText == UnformatText(selectedText, sym.prefix, sym.suffix)
             IN  Outcome(textarea, beforeText \o newSelectedText \o afterText,
                         start, start + Len(newSelectedText),
                         "unformat", newSelectedText, {"input"})
        ELSE LET text == ApplyFormatting(selectedText, formatType, sym.prefix, sym.suffix,
                                         sym.isMultilineFormat)
             IN  IF Len(selectedText) = 0
                 THEN Outcome(textarea, beforeText \o text \o afterText,
                              start + Len(sym.prefix), start + Len(sym.prefix),
                              "format", text, {"input"})
                 ELSE Outcome(textarea, beforeText \o text \o afterText,
                              start, start + Len(text), "format", text, {"input"})

\* range.toString(): the data of the text nodes in the range.  CodeMirror keeps
\* every line in an element of its own, so a line break is no text node
RangeToString(value, start, end) ==
    SelectSeq(Substring(value, start, end), LAMBDA c : c # "\n")

\* range.deleteContents() followed by range.insertNode(textNode)
ReplaceRange(value, start, end, text) ==
    Substring(value, 0, start) \o text \o SubstringFrom(value, end)

FormatContentEditable(formatType, contentEditableElement) ==
    LET start == contentEditableElement.selectionStart
        end == contentEditableElement.selectionEnd
        selectedText == RangeToString(contentEditableElement.value, start, end)
        sym == GetFormatSymbols(formatType)
    IN  IF contentEditableElement.kind # "contenteditable"
        THEN Outcome(contentEditableElement, contentEditableElement.value, start, end,
                     "none", <<>>, {})
        ELSE IF ShouldUnformat(selectedText, sym.prefix, sym.suffix)
        THEN LET newText == UnformatText(selectedText, sym.prefix, sym.suffix)
             IN  Outcome(contentEditableElement,
                         ReplaceRange(contentEditableElement.value, start, end, newText),
                         start, start + Len(newText), "unformat", newText, {"input"})
        ELSE LET text == ApplyFormatting(selectedText, formatType, sym.prefix, sym.suffix,
                                         sym.isMultilineFormat)
                 value == ReplaceRange(contentEditableElement.value, start, end, text)
             IN  IF Len(selectedText) = 0
                 THEN Outcome(contentEditableElement, value,
                              start + Len(sym.prefix), start + Len(sym.prefix),
                              "format", text, {"input", "change"})
                 ELSE Outcome(contentEditableElement, value, start, start + Len(text),
                              "format", text, {"input", "change"})

\* formatCodeMirror that never removes a formatting
FormatCodeMirrorNoUnformat(formatType, editorView) ==
    LET from == editorView.selectionStart
        to == editorView.selectionEnd
        selectedText == SubSeq(editorView.value, from + 1, to)
        sym == GetFormatSymbols(formatType)
        text == IF Len(selectedText) = 0 THEN sym.prefix \o sym.suffix
                ELSE sym.prefix \o selectedText \o sym.suffix
    IN  Outcome(editorView, ReplaceRange(editorView.value, from, to, text),
                from, from + Len(text), "format", text, {})

\* state.doc.sliceString(from, to) keeps the line breaks of the document;
\* dispatch({changes, selection}) replaces [from, to) and sets the selection
FormatCodeMirror(formatType, editorView) ==
    LET from == editorView.selectionStart
        to == editorView.selectionEnd
        selectedText == SubSeq(editorView.value, from + 1, to)
        sym == GetFormatSymbols(formatType)
        prefix == sym.prefix
        suffix == sym.suffix
        shouldUnformat ==
            /\ Len(selectedText) > 0
            /\ IF Len(prefix) > 0 /\ Len(suffix) > 0
               THEN StartsWith(selectedText, prefix) /\ EndsWith(selectedText, suffix)
               ELSE IF Len(prefix) > 0 /\ Len(suffix) = 0
                    THEN StartsWith(selectedText, prefix)
               ELSE FALSE
    IN  IF shouldUnformat
        THEN LET newSelectedText ==
                     Substring(selectedText, Len(prefix), Len(selectedText) - Len(suffix))
             IN  Outcome(editorView, ReplaceRange(editorView.value, from, to, newSelectedText),
                         from, from + Len(newSelectedText), "unformat", newSelectedText, {})
        ELSE IF Len(selectedText) = 0
        THEN Outcome(editorView, ReplaceRange(editorView.value, from, to, prefix \o suffix),
                     from + Len(prefix), from + Len(prefix), "format", prefix \o suffix, {})
        ELSE LET lines == Split(selectedText)
                 text == IF Includes(selectedText, "\n") /\ sym.isMultilineFormat
                         THEN IF formatType = "ol"
                              THEN JoinLines([i \in 1..Len(lines) |->
                                       NumberToString(i) \o <<".", " ">> \o lines[i]])
                              ELSE JoinLines([i \in 1..Len(lines) |-> prefix \o lines[i]])
                         ELSE prefix \o selectedText \o suffix
             IN  Outcome(editorView, ReplaceRange(editorView.value, from, to, text),
                         from, from + Len(text), "format", text, {})

Formatters == {"formatText", "formatContentEditable", "formatCodeMirror"}

\* What the formatter f makes of a click on formatType in an editor of its
\* own kind that holds the text and the selection of ed
Reading(f, formatType, ed) ==
    LET mine == [ed EXCEPT !.kind = IF f = "formatText" THEN "textarea"
                                    ELSE IF f = "formatContentEditable" THEN "contenteditable"
                                    ELSE "codemirror"]
        out == IF f = "formatText" THEN FormatText(formatType, mine)
               ELSE IF f = "formatContentEditable" THEN FormatContentEditable(formatType, mine)
               ELSE FormatCodeMirror(formatType, mine)
    IN  [selectedText |-> IF f = "formatContentEditable"
                          THEN RangeToString(ed.value, ed.selectionStart, ed.selectionEnd)
                          ELSE Substring(ed.value, ed.selectionStart, ed.selectionEnd),
         path |-> out.path,
         replacement |-> out.replacement,
         from |-> out.editor.selectionStart - ed.selectionStart,
         to |-> out.editor.selectionEnd - ed.selectionStart]

FindEditor(k) ==
    IF QuerySelector(k, W, TA) # None THEN TA
    ELSE IF QuerySelector(k, W, CC) # None THEN CC
    ELSE None

\* The effect of useMarkdownFormatter at mount: setEditor(foundEditor) if one is found
CacheAtMount(k) == IF FindEditor(k) # None THEN "live" ELSE "null"

\* The element format(type) passes to formatMarkdown
FormatTarget(cached, k) ==
    IF cached = "live" THEN "current"
    ELSE IF cached = "stale" THEN "detached"
    ELSE IF FindEditor(k) # None THEN "current"
    ELSE "none"

FormatMarkdown(formatType, editorElement) ==
    IF editorElement.kind = "textarea" THEN FormatText(formatType, editorElement)
    ELSE IF editorElement.kind = "contenteditable"
         THEN FormatContentEditable(formatType, editorElement)
    ELSE Outcome(editorElement, editorElement.value, editorElement.selectionStart,
                 editorElement.selectionEnd, "none", <<>>, {})

(***************************************************************************)
(* The layout toggler's actions.                                           *)
(***************************************************************************)
MS == [st |-> style, m |-> originalStyles, k |-> kids, o |-> firstStyle, mv |-> movedFrom]

Commit(ms) ==
    /\ style' = ms.st
    /\ originalStyles' = ms.m
    /\ kids' = ms.k
    /\ firstStyle' = ms.o
    /\ movedFrom' = ms.mv

\* setSplitMode(true): the isSplit branch of useSplitMode's effect runs
ActivateLayout ==
    /\ survivors' = survivors \cup DOMAIN originalStyles
    /\ IF viewType = "oldpr"
       THEN /\ \E oh \in OffsetHeights :
                  Commit(OldPRDispatch([MS EXCEPT !.o = EmptyMap], previewContent, oh, scrollH))
            /\ resizeListener' = FALSE
            /\ IF OldPRApplied(kids)
               THEN /\ resetTimers < MaxResetTimers
                    /\ resetTimers' = resetTimers + 1
                    /\ previewClick' = TRUE
                    /\ waHidden' = FALSE
                    /\ inputListener' = (OldPRTextarea(kids, previewContent) # None)
               ELSE UNCHANGED <<resetTimers, previewClick, waHidden, inputListener>>
       ELSE /\ Commit(SplitModeOn([MS EXCEPT !.o = EmptyMap], cssMaxH, scrollH, avail))
            /\ resizeListener' = TRUE
            /\ UNCHANGED <<resetTimers, previewClick, waHidden, inputListener>>
    /\ UNCHANGED <<viewType, cssMaxH, scrollH, avail, previewContent, refreshTimeout>>

\* setSplitMode(false): the effect's cleanup runs, then its else branch
DeactivateLayout ==
    /\ style' = RestoreStyles(style, originalStyles)
    /\ originalStyles' = EmptyMap
    /\ resizeListener' = FALSE
    /\ inputListener' = FALSE
    /\ refreshTimeout' = FALSE
    /\ UNCHANGED <<viewType, kids, cssMaxH, scrollH, avail, previewContent, waHidden,
                   resetTimers, previewClick, firstStyle, movedFrom, survivors>>

\* handleResize
HandleResize(ms, cssMax, scrollHeight, a) ==
    LET scroll == FindReadmeScrollContainer(ms.k)
        s1 == IF scroll # None
              THEN SetStyle(ms, scroll, "height", Px(CalculateEditorHeight(a)))
              ELSE ms
        writeArea == FindWriteArea(s1.k)
        textarea == IF writeArea = None THEN None ELSE QuerySelector(s1.k, writeArea, TA)
        previewArea == FindPreviewArea(s1.k)
    IN  IF textarea = None THEN s1
        ELSE LET h == CalculateTextareaHeight(s1.st, cssMax, scrollHeight)
                 s2 == SetStyle(s1, textarea, "height", Px(h))
                 s3 == SetStyle(s2, textarea, "max-height", Px(h))
             IN  IF previewArea = None THEN s3
                 ELSE SetStyle(s3, previewArea, "height", Px(h))

\* useGitHubPreviewRefresh's effect runs with isSplit true
ActivateRefresh ==
    /\ IF RefreshEnabled(viewType, kids', ExtractGitHubData(page))
       THEN observing' = (QuerySelector(kids', CM, CC) # None)
       ELSE observing' = FALSE
    /\ isRefreshing' = FALSE
    /\ updateTimeout' = 0
    /\ mutated' = FALSE
    /\ invoked' = 0
    /\ sent' = FALSE
    /\ foreign' = FALSE
    /\ lastOutcome' = "none"
    /\ UNCHANGED <<doc, previewHtml, timers, inFlight, page, sinceMutation, earlyInvoke,
                   htmlBefore, allOk>>

\* useGitHubPreviewRefresh's cleanup runs; a request in flight is not aborted
DeactivateRefresh ==
    /\ timers' = ClearTimeout(timers, updateTimeout)
    /\ updateTimeout' = 0
    /\ observing' = FALSE
    /\ isRefreshing' = FALSE
    /\ inFlight' = Disown(inFlight)
    /\ lastOutcome' = "none"
    /\ UNCHANGED <<doc, previewHtml, page, sinceMutation, mutated, invoked, earlyInvoke, sent,
                   htmlBefore, allOk, foreign>>

\* No click is dispatched and nothing of the App is rendered anew
NoClick ==
    /\ lastClicks' = {}
    /\ UNCHANGED <<tabVars, rendered>>

\* The SplitButton's onClick while split mode is off; in the old PR UI the
\* effect's clickPreviewTab dispatches a click that handleTabClick sees
Activate ==
    /\ ~isSplit
    /\ rendered.display = "flex"
    /\ isSplit' = IF viewType = "oldpr" /\ OldPRApplied(kids) THEN ScriptClick(TRUE) ELSE TRUE
    /\ ActivateLayout
    /\ ActivateRefresh
    /\ rendered' = RenderApp(isPreviewActive, isSplit')
    /\ lastClicks' = IF viewType = "oldpr" /\ OldPRApplied(kids)
                     THEN {"button", "script"} ELSE {"button"}
    /\ UNCHANGED tabVars
    /\ UNCHANGED <<discoveryVars, fmtVars>>

\* The SplitButton's onClick while split mode is on
Deactivate ==
    /\ isSplit
    /\ rendered.display = "flex"
    /\ isSplit' = FALSE
    /\ DeactivateLayout
    /\ DeactivateRefresh
    /\ rendered' = RenderApp(isPreviewActive, FALSE)
    /\ lastClicks' = {"button"}
    /\ UNCHANGED tabVars
    /\ UNCHANGED <<discoveryVars, fmtVars>>

\* The user clicks an element inside the wrapper: handleTabClick runs in the
\* capture phase, and a state change runs the effects' cleanups
WrapperClick ==
    /\ FindHeader(kids) # None
    /\ \E target \in ClickTargets(viewType) :
          /\ lastClicks' = IF IsTabButton(viewType, target) THEN {"tab"} ELSE {}
          /\ IF isSplit /\ ~HandleTabClick(TRUE, target, isSplit)
             THEN /\ isSplit' = FALSE
                  /\ DeactivateLayout
                  /\ DeactivateRefresh
                  /\ rendered' = RenderApp(isPreviewActive, FALSE)
             ELSE UNCHANGED <<domVars, layoutVars, refreshVars, rendered>>
    /\ UNCHANGED tabVars
    /\ UNCHANGED <<discoveryVars, fmtVars>>

\* useWrapperTabs' effect runs after the App is mounted
MountTabs ==
    /\ ~tabsObserved
    /\ FindHeader(kids) # None
    /\ tabsObserved' = TRUE
    /\ isPreviewActive' = CheckTab(viewType, marks)
    /\ rendered' = RenderApp(isPreviewActive', isSplit)
    /\ lastClicks' = {}
    /\ UNCHANGED <<domVars, layoutVars, refreshVars, activeTab, marks>>
    /\ UNCHANGED <<discoveryVars, fmtVars>>

\* The host selects a tab and rewrites the tabs' attributes; the observer's
\* callback checkTab runs when the observer is connected
HostSwitchTab ==
    /\ FindHeader(kids) # None
    /\ \E t \in Tabs, kind \in MarkKinds :
          /\ marks # HostMarks(t, kind)
          /\ activeTab' = t
          /\ marks' = HostMarks(t, kind)
    /\ isPreviewActive' = IF tabsObserved THEN CheckTab(viewType, marks') ELSE isPreviewActive
    /\ rendered' = RenderApp(isPreviewActive', isSplit)
    /\ lastClicks' = {}
    /\ UNCHANGED <<domVars, layoutVars, refreshVars, tabsObserved>>
    /\ UNCHANGED <<discoveryVars, fmtVars>>

\* The user edits the README; the observer's callback runs when it is connected
ContentEdit ==
    /\ viewType = "readme"
    /\ \E d \in Docs :
          /\ d # doc
          /\ doc' = d
    /\ mutated' = isSplit
    /\ lastOutcome' = "none"
    /\ IF observing
       THEN /\ Len(ClearTimeout(timers, updateTimeout)) < MaxTimers
            /\ timers' = Append(ClearTimeout(timers, updateTimeout), DEBOUNCE_DELAY)
            /\ updateTimeout' = Len(timers')
            /\ sinceMutation' = 0
            /\ invoked' = 0
       ELSE UNCHANGED <<timers, updateTimeout, sinceMutation, invoked>>
    /\ UNCHANGED <<domVars, layoutVars, previewHtml, isRefreshing, observing, inFlight, page,
                   earlyInvoke, sent, htmlBefore, allOk, foreign>>
    /\ UNCHANGED <<discoveryVars, fmtVars>>
    /\ NoClick

\* Time passes
Tick ==
    /\ timers # <<>>
    /\ \E i \in 1..Len(timers) : timers[i] > 0
    /\ timers' = [i \in 1..Len(timers) |-> Max(0, timers[i] - TickStep)]
    /\ sinceMutation' = Min(DEBOUNCE_DELAY, sinceMutation + TickStep)
    /\ lastOutcome' = "none"
    /\ UNCHANGED <<domVars, layoutVars, doc, previewHtml, updateTimeout, isRefreshing,
                   observing, inFlight, page, mutated, invoked, earlyInvoke, sent,
                   htmlBefore, allOk, foreign>>
    /\ UNCHANGED <<discoveryVars, fmtVars>>
    /\ NoClick

\* A refresh timer fires: refreshPreview runs up to its await
TimerFire ==
    \E i \in 1..Len(timers) :
       /\ timers[i] = 0
       /\ timers' = SubSeq(timers, 1, i - 1) \o SubSeq(timers, i + 1, Len(timers))
       /\ updateTimeout' = IF updateTimeout = i THEN 0
                           ELSE IF updateTimeout > i THEN updateTimeout - 1
                           ELSE updateTimeout
       /\ invoked' = invoked + 1
       /\ earlyInvoke' = (earlyInvoke \/ sinceMutation < DEBOUNCE_DELAY)
       /\ LET content == ExtractCodeMirrorContent(kids, doc)
          IN  IF isRefreshing
              THEN /\ lastOutcome' = "none"
                   /\ UNCHANGED <<isRefreshing, inFlight, sent, htmlBefore>>
              ELSE IF content = ""
              THEN /\ isRefreshing' = FlagAfter(TRUE, "empty")
                   /\ lastOutcome' = "empty"
                   /\ htmlBefore' = previewHtml
                   /\ UNCHANGED <<inFlight, sent>>
              ELSE /\ Len(inFlight) < MaxInFlight
                   /\ isRefreshing' = TRUE
                   /\ inFlight' = Append(inFlight, [content |-> content, own |-> TRUE])
                   /\ sent' = TRUE
                   /\ lastOutcome' = "none"
                   /\ UNCHANGED htmlBefore
       /\ UNCHANGED <<domVars, layoutVars, doc, previewHtml, observing, page, sinceMutation,
                      mutated, allOk, foreign>>
    /\ UNCHANGED <<discoveryVars, fmtVars>>
    /\ NoClick

\* A preview request is answered: refreshPreview resumes after its await
FetchComplete ==
    \E i \in 1..Len(inFlight), outcome \in Outcomes :
       LET req == inFlight[i]
       IN  /\ inFlight' = SubSeq(inFlight, 1, i - 1) \o SubSeq(inFlight, i + 1, Len(inFlight))
           /\ previewHtml' = RefreshAnswered(kids, req.content, outcome, previewHtml)
           /\ isRefreshing' = IF req.own THEN FlagAfter(isRefreshing, outcome) ELSE isRefreshing
           /\ lastOutcome' = outcome
           /\ htmlBefore' = previewHtml
           /\ allOk' = (allOk /\ outcome = "ok")
           /\ foreign' = (foreign \/ (isSplit /\ ~req.own))
           /\ UNCHANGED <<domVars, layoutVars, doc, timers, updateTimeout, observing, page,
                          sinceMutation, mutated, invoked, earlyInvoke, sent>>
    /\ UNCHANGED <<discoveryVars, fmtVars>>
    /\ NoClick

\* The window is resized: the viewport and the stylesheet's max-height change,
\* and handleResize runs when it is registered
WindowResize ==
    /\ \E a \in AvailHeights, c \in CssMaxHeights :
          /\ a # avail \/ c # cssMaxH
          /\ viewType # "issues" => c = cssMaxH
          /\ avail' = a
          /\ cssMaxH' = c
          /\ IF resizeListener
             THEN Commit(HandleResize(MS, c, scrollH, a))
             ELSE UNCHANGED <<style, originalStyles, kids, firstStyle, movedFrom>>
    /\ UNCHANGED <<refreshVars, viewType, scrollH, previewContent, waHidden, isSplit, resizeListener,
                   refreshTimeout, inputListener, resetTimers, previewClick, survivors>>
    /\ UNCHANGED <<discoveryVars, fmtVars>>
    /\ NoClick

\* The host page changes the inline display of an area while split mode is off
HostRestyle ==
    /\ ~isSplit
    /\ \E el \in {P, WA}, d \in HostDisplays :
          /\ IsInside(kids, W, el)
          /\ style[el]["display"] # d
          /\ style' = [style EXCEPT ![el]["display"] = d]
    /\ UNCHANGED <<refreshVars, viewType, kids, cssMaxH, scrollH, avail, previewContent, waHidden, layoutVars>>
    /\ UNCHANGED <<discoveryVars, fmtVars>>
    /\ NoClick

\* Old PR UI: handleTextareaChange
TextareaInput ==
    /\ inputListener
    /\ \E oh \in OffsetHeights :
          Commit(SetStyle(MS, P, "height", Px(CalculateTextareaHeightOldUI(oh, scrollH))))
    /\ refreshTimeout' = TRUE
    /\ UNCHANGED <<refreshVars, viewType, cssMaxH, scrollH, avail, previewContent, waHidden, isSplit,
                   resizeListener, inputListener, resetTimers, previewClick, survivors>>
    /\ UNCHANGED <<discoveryVars, fmtVars>>
    /\ NoClick

\* Old PR UI: the debounced refresh fires: clickPreviewTab, whose click
\* handleTabClick sees, then a reset timer
RefreshTimeoutFire ==
    /\ refreshTimeout
    /\ resetTimers < MaxResetTimers
    /\ refreshTimeout' = FALSE
    /\ previewClick' = TRUE
    /\ resetTimers' = resetTimers + 1
    /\ isSplit' = ScriptClick(isSplit)
    /\ rendered' = RenderApp(isPreviewActive, isSplit')
    /\ lastClicks' = {"script"}
    /\ UNCHANGED <<refreshVars, domVars, originalStyles, resizeListener, inputListener,
                   firstStyle, movedFrom, survivors, tabVars>>
    /\ UNCHANGED <<discoveryVars, fmtVars>>

\* Old PR UI: a min-height reset timer fires
ResetTimerFire ==
    /\ resetTimers > 0
    /\ resetTimers' = resetTimers - 1
    /\ Commit(ResetPreviewBodyMinHeight(MS))
    /\ UNCHANGED <<refreshVars, viewType, cssMaxH, scrollH, avail, previewContent, waHidden, isSplit,
                   resizeListener, refreshTimeout, inputListener, previewClick, survivors>>
    /\ UNCHANGED <<discoveryVars, fmtVars>>
    /\ NoClick

\* Old PR UI: the host serves the Preview-tab click and renders the preview body
HostRenderPreview ==
    /\ previewClick
    /\ previewClick' = FALSE
    /\ kids' = [kids EXCEPT ![P] = <<PB>>]
    /\ style' = [style EXCEPT ![PB] = [NoStyle EXCEPT !["min-height"] = "100px"]]
    /\ UNCHANGED <<refreshVars, viewType, cssMaxH, scrollH, avail, previewContent, waHidden, isSplit,
                   originalStyles, resizeListener, refreshTimeout, inputListener,
                   resetTimers, firstStyle, movedFrom, survivors>>
    /\ UNCHANGED <<discoveryVars, fmtVars>>
    /\ NoClick

Next ==
    \/ Activate
    \/ Deactivate
    \/ WindowResize
    \/ HostRestyle
    \/ TextareaInput
    \/ RefreshTimeoutFire
    \/ ResetTimerFire
    \/ HostRenderPreview
    \/ WrapperClick

Spec == Init /\ [][Next]_vars

(***************************************************************************)
(* The App with the host's tabs.                                           *)
(***************************************************************************)
TabsInit ==
    /\ viewType \in {"issues", "readme"}
    /\ \E hasHeader \in BOOLEAN :
          kids = IF viewType = "issues"
                 THEN IssuesDom(hasHeader, "direct", TRUE, FALSE)
                 ELSE ReadmeDom(hasHeader, "direct", "nowhere", TRUE, FALSE, TRUE, TRUE)
    /\ style = InitStyle(viewType, "")
    /\ previewContent = FALSE
    /\ waHidden = FALSE
    /\ cssMaxH = 0
    /\ scrollH = 0
    /\ avail = 900
    /\ InitLayout
    /\ FormatterIdle
    /\ InitRefresh
    /\ doc = <<"a">>
    /\ page = FullPage
    /\ Discovered
    /\ activeTab \in Tabs
    /\ \E kind \in MarkKinds : marks = HostMarks(activeTab, kind)
    /\ tabsObserved = FALSE
    /\ isPreviewActive = FALSE
    /\ rendered = RenderApp(FALSE, FALSE)
    /\ lastClicks = {}

TabsNext ==
    \/ MountTabs
    \/ HostSwitchTab
    \/ Activate
    \/ Deactivate
    \/ WrapperClick

TabsSpec == TabsInit /\ [][TabsNext]_vars

(***************************************************************************)
(* The README editor with its preview refresher.                           *)
(***************************************************************************)
RefreshInit ==
    /\ viewType = "readme"
    /\ \E previewAt \in {"direct", "absent"}, hasCM \in BOOLEAN, hasContent \in BOOLEAN,
          hasBody \in BOOLEAN :
          kids = ReadmeDom(TRUE, previewAt, "nowhere", hasCM, FALSE, hasContent, hasBody)
    /\ style = InitStyle("readme", "")
    /\ previewContent = FALSE
    /\ waHidden = FALSE
    /\ cssMaxH = 0
    /\ scrollH = 0
    /\ avail = 900
    /\ InitLayout
    /\ FormatterIdle
    /\ InitRefresh
    /\ doc \in Docs
    /\ page \in Pages
    /\ Discovered
    /\ AppShown

RefreshNext ==
    \/ Activate
    \/ Deactivate
    \/ ContentEdit
    \/ Tick
    \/ TimerFire
    \/ FetchComplete

RefreshSpec == RefreshInit /\ [][RefreshNext]_vars

(***************************************************************************)
(* The content script: discovery of editor wrappers.                       *)
(***************************************************************************)
\* EDITOR_WRAPPER_SELECTORS: wrappers in the document without the attribute
Matches(pr, init) == {w \in Wrappers : pr[w] /\ ~init[w]}

MarkNothing(init, w) == init

\* wrapper.dataset.splitViewInitialized = "true"
MarkInitialized(init, w) == [init EXCEPT ![w] = TRUE]

\* The body of initializeSplitView's forEach for one wrapper
ProcessWrapper(ds, w) ==
    IF ds.initialized[w] THEN ds
    ELSE LET marked == [ds EXCEPT !.initialized = MarkInitialized(ds.initialized, w),
                                  !.processed[w] = Min(MaxCount, @ + 1)]
         IN  IF ~ds.hasTabs[w] THEN marked
             ELSE [marked EXCEPT !.roots[w] = Min(MaxCount, @ + 1)]

RECURSIVE ProcessAll(_, _)
ProcessAll(ds, ws) ==
    IF ws = {} THEN ds
    ELSE LET w == CHOOSE x \in ws : \A y \in ws : x <= y
         IN  ProcessAll(ProcessWrapper(ds, w), ws \ {w})

DS == [initialized |-> initialized, hasTabs |-> hasTabs, roots |-> roots,
       processed |-> processed]

\* initializeSplitView
InitializeSplitView ==
    LET ds == ProcessAll(DS, Matches(present, initialized))
    IN  /\ initialized' = ds.initialized
        /\ roots' = ds.roots
        /\ processed' = ds.processed

EditorIdle == UNCHANGED <<domVars, layoutVars, refreshVars, appVars, fmtVars>>

\* The content script is injected: setupObserver(); initializeSplitView()
ScriptStart ==
    /\ ~started
    /\ started' = TRUE
    /\ InitializeSplitView
    /\ UNCHANGED <<present, hasTabs, debounceTimeout, reinitTimers>>
    /\ EditorIdle

\* The host inserts an editor wrapper: a new element, or one it had detached
HostAddWrapper ==
    /\ \E w \in Wrappers, tabs \in BOOLEAN :
          /\ ~present[w]
          /\ present' = [present EXCEPT ![w] = TRUE]
          /\ hasTabs' = [hasTabs EXCEPT ![w] = (@ \/ tabs)]
    /\ debounceTimeout' = (started \/ debounceTimeout)
    /\ UNCHANGED <<initialized, roots, processed, started, reinitTimers>>
    /\ EditorIdle

\* The host takes a wrapper out of the document, for good or to insert it again
HostRemoveWrapper ==
    /\ \E w \in Wrappers, keep \in BOOLEAN :
          /\ present[w]
          /\ present' = [present EXCEPT ![w] = FALSE]
          /\ IF keep
             THEN UNCHANGED <<initialized, hasTabs, roots, processed>>
             ELSE /\ initialized' = [initialized EXCEPT ![w] = FALSE]
                  /\ hasTabs' = [hasTabs EXCEPT ![w] = FALSE]
                  /\ roots' = [roots EXCEPT ![w] = 0]
                  /\ processed' = [processed EXCEPT ![w] = 0]
    /\ UNCHANGED <<started, debounceTimeout, reinitTimers>>
    /\ EditorIdle

\* The host renders the tab container of a wrapper; the observer's callback
\* schedules a run when the added node belongs to a MarkdownEditor module
HostAddTabs ==
    /\ \E w \in Wrappers, editorModule \in BOOLEAN :
          /\ present[w]
          /\ ~hasTabs[w]
          /\ hasTabs' = [hasTabs EXCEPT ![w] = TRUE]
          /\ debounceTimeout' = ((started /\ editorModule) \/ debounceTimeout)
    /\ UNCHANGED <<present, initialized, roots, processed, started, reinitTimers>>
    /\ EditorIdle

\* The debounced initializeSplitView runs
DebounceFire ==
    /\ debounceTimeout
    /\ debounceTimeout' = FALSE
    /\ InitializeSplitView
    /\ UNCHANGED <<present, hasTabs, started, reinitTimers>>
    /\ EditorIdle

\* turbo:load, turbo:render or soft-nav:success: reinitialize()
NavigationEvent ==
    /\ started
    /\ \E w \in Wrappers : present[w] /\ ~initialized[w]
    /\ InitializeSplitView
    /\ UNCHANGED <<present, hasTabs, started, debounceTimeout, reinitTimers>>
    /\ EditorIdle

\* popstate: setTimeout(reinitialize, DOM_REINIT_DELAY)
Popstate ==
    /\ started
    /\ reinitTimers < MaxReinitTimers
    /\ reinitTimers' = reinitTimers + 1
    /\ UNCHANGED <<present, initialized, hasTabs, roots, processed, started, debounceTimeout>>
    /\ EditorIdle

\* A reinitialize timer fires
ReinitTimerFire ==
    /\ reinitTimers > 0
    /\ reinitTimers' = reinitTimers - 1
    /\ InitializeSplitView
    /\ UNCHANGED <<present, hasTabs, started, debounceTimeout>>
    /\ EditorIdle

DiscoveryInit ==
    /\ viewType = "issues"
    /\ kids = IssuesDom(TRUE, "direct", TRUE, FALSE)
    /\ style = InitStyle("issues", "")
    /\ previewContent = FALSE
    /\ waHidden = FALSE
    /\ cssMaxH = 0
    /\ scrollH = 0
    /\ avail = 900
    /\ InitLayout
    /\ FormatterIdle
    /\ InitRefresh
    /\ doc = <<"a">>
    /\ page = FullPage
    /\ present \in [Wrappers -> BOOLEAN]
    /\ hasTabs \in [Wrappers -> BOOLEAN]
    /\ \A w \in Wrappers : hasTabs[w] => present[w]
    /\ initialized = [w \in Wrappers |-> FALSE]
    /\ roots = [w \in Wrappers |-> 0]
    /\ processed = [w \in Wrappers |-> 0]
    /\ started = FALSE
    /\ debounceTimeout = FALSE
    /\ reinitTimers = 0
    /\ AppShown

DiscoveryNext ==
    \/ ScriptStart
    \/ HostAddWrapper
    \/ HostRemoveWrapper
    \/ HostAddTabs
    \/ DebounceFire
    \/ NavigationEvent
    \/ Popstate
    \/ ReinitTimerFire

DiscoverySpec == DiscoveryInit /\ [][DiscoveryNext]_vars

(***************************************************************************)
(* The toolbar's formatting buttons.                                       *)
(***************************************************************************)
\* A click on a toolbar button; after the first click the same button is
\* clicked again on the selection the click before left
ToolbarClick ==
    /\ clicks < MaxClicks
    /\ \E formatType \in FormatTypes :
          /\ clicks > 0 => formatType = lastFormat
          /\ LET target == FormatTarget(cache, kids)
                 element == IF target = "detached" THEN staleEditor ELSE textEditor
                 out == FormatMarkdown(formatType, element)
             IN  /\ formatted' = target
                 /\ textEditor' = IF target = "current" THEN out.editor ELSE textEditor
                 /\ staleEditor' = IF target = "detached" THEN out.editor ELSE staleEditor
                 /\ lastPath' = IF target = "none" THEN "none" ELSE out.path
                 /\ replacement' = IF target = "none" THEN <<>> ELSE out.replacement
                 /\ dispatched' = IF target = "none" THEN {} ELSE out.events
                 /\ byFormatter' = [f \in Formatters |-> Reading(f, formatType, element)]
          /\ lastFormat' = formatType
    /\ clicks' = clicks + 1
    /\ UNCHANGED <<origin, cache>>
    /\ UNCHANGED <<domVars, layoutVars, refreshVars, discoveryVars, appVars>>

\* The host replaces the editor element by a new one with the same text and
\* selection; the hook's state keeps the element it was given at mount
HostReplaceEditor ==
    /\ FindEditor(kids) # None
    /\ cache' = IF cache = "live" THEN "stale" ELSE cache
    /\ staleEditor' = IF cache = "live" THEN textEditor ELSE staleEditor
    /\ formatted' = "none"
    /\ UNCHANGED <<textEditor, origin, lastFormat, clicks, lastPath, replacement, dispatched,
                   byFormatter>>
    /\ UNCHANGED <<domVars, layoutVars, refreshVars, discoveryVars, appVars>>

\* The host renders the editor element of a wrapper that had none
HostAddEditor ==
    /\ FindEditor(kids) = None
    /\ kids' = IF viewType = "issues"
               THEN IssuesDom(TRUE, "direct", TRUE, FALSE)
               ELSE ReadmeDom(TRUE, "direct", "nowhere", TRUE, FALSE, TRUE, TRUE)
    /\ formatted' = "none"
    /\ UNCHANGED <<viewType, style, cssMaxH, scrollH, avail, previewContent, waHidden>>
    /\ UNCHANGED <<textEditor, origin, lastFormat, clicks, lastPath, replacement, dispatched,
                   byFormatter, cache, staleEditor>>
    /\ UNCHANGED <<layoutVars, refreshVars, discoveryVars, appVars>>

\* The user has typed a text into the editor of a split wrapper and selected a
\* range of it; the toolbar is rendered
FormatInit ==
    /\ viewType \in {"issues", "readme"}
    /\ kids = IF viewType = "issues"
              THEN IssuesDom(TRUE, "direct", TRUE, FALSE)
              ELSE ReadmeDom(TRUE, "direct", "nowhere", TRUE, FALSE, TRUE, TRUE)
    /\ style = InitStyle(viewType, "")
    /\ previewContent = FALSE
    /\ waHidden = FALSE
    /\ cssMaxH = 0
    /\ scrollH = 0
    /\ avail = 900
    /\ InitLayout
    /\ InitRefresh
    /\ doc = <<"a">>
    /\ page = FullPage
    /\ Discovered
    /\ AppShown
    /\ \E kind \in EditorKinds, value \in Texts :
          \E start \in 0..Len(value) :
             \E end \in start..Len(value) :
                /\ kind = "contenteditable" <=> viewType = "readme"
                /\ textEditor = [kind |-> kind, value |-> value,
                                 selectionStart |-> start, selectionEnd |-> end]
                /\ origin = [value |-> value, selectionStart |-> start, selectionEnd |-> end]
    /\ lastFormat = "none"
    /\ clicks = 0
    /\ lastPath = "none"
    /\ replacement = <<>>
    /\ dispatched = {}
    /\ byFormatter = <<>>
    /\ cache = CacheAtMount(kids)
    /\ staleEditor = textEditor
    /\ formatted = "none"

FormatNext == ToolbarClick

FormatSpec == FormatInit /\ [][FormatNext]_vars

(***************************************************************************)
(* The toolbar's formatter with the host adding and replacing the editor.  *)
(***************************************************************************)
\* The toolbar has been mounted in a wrapper whose editor may not be there yet
CacheInit ==
    /\ viewType \in {"issues", "readme"}
    /\ \E hasEditor \in BOOLEAN :
          kids = IF viewType = "issues"
                 THEN IssuesDom(TRUE, "direct", hasEditor, FALSE)
                 ELSE ReadmeDom(TRUE, "direct", "nowhere", TRUE, FALSE, hasEditor, TRUE)
    /\ style = InitStyle(viewType, "")
    /\ previewContent = FALSE
    /\ waHidden = FALSE
    /\ cssMaxH = 0
    /\ scrollH = 0
    /\ avail = 900
    /\ InitLayout
    /\ InitRefresh
    /\ doc = <<"a">>
    /\ page = FullPage
    /\ Discovered
    /\ AppShown
    /\ \E value \in {<<"a">>, <<"a", "a">>} :
          \E start \in 0..Len(value) :
             \E end \in start..Len(value) :
                /\ textEditor = [kind |-> IF viewType = "readme" THEN "contenteditable"
                                          ELSE "textarea",
                                 value |-> value,
                                 selectionStart |-> start, selectionEnd |-> end]
                /\ origin = [value |-> value, selectionStart |-> start, selectionEnd |-> end]
    /\ lastFormat = "none"
    /\ clicks = 0
    /\ lastPath = "none"
    /\ replacement = <<>>
    /\ dispatched = {}
    /\ byFormatter = <<>>
    /\ cache = CacheAtMount(kids)
    /\ staleEditor = textEditor
    /\ formatted = "none"

CacheNext ==
    \/ ToolbarClick
    \/ HostReplaceEditor
    \/ HostAddEditor

CacheSpec == CacheInit /\ [][CacheNext]_vars


(***************************************************************************)
(* Properties of the layout toggler.                                       *)
(***************************************************************************)
Hidden(el) == style[el]["display"] \in {"none", Important("none")}

EditorContainer == IF viewType = "readme" THEN CM ELSE WA

EditorNode == IF viewType = "readme" THEN ED ELSE SP

AllFound ==
    /\ viewType \in {"issues", "readme"}
    /\ FindHeader(kids) # None
    /\ FindWriteArea(kids) # None
    /\ FindPreviewArea(kids) # None
    /\ QuerySelector(kids, WA, EditorNode) # None

\* C1: a deactivation leaves every element captured during the activation
\* with the style it had just before the extension first modified it.
C1_RestoreExact ==
    [][(isSplit /\ ~isSplit') =>
          \A el \in DOMAIN firstStyle : style'[el] = firstStyle[el]]_vars

\* C2: while split mode is off, a preview area that an activation moved is
\* back at the parent and sibling position it had before that move.
C2_PreviewRelocatedBack ==
    (~isSplit /\ movedFrom # <<None, 0>>) => Position(kids, P) = movedFrom

\* C3: the style-snapshot map is empty whenever split mode is off, and no
\* activation begins with an entry left in it.
C3_SnapshotMapEmptyWhenOff ==
    /\ ~isSplit => DOMAIN originalStyles = {}
    /\ survivors = {}

ActivationLayout ==
    (isSplit /\ AllFound) =>
        /\ ~Hidden(H)
        /\ ~Hidden(WA)
        /\ style[P]["display"] = Important("block")
        /\ IF viewType = "readme"
           THEN /\ style[WA]["display"] = Important("block")
                /\ style[CM]["display"] = Important("grid")
           ELSE /\ style[WA]["display"] = Important("grid")
                /\ style[SP]["display"] = Important("block")
        /\ \A i \in 1..Len(kids[W]) :
              kids[W][i] \notin {H, WA} => style[kids[W][i]]["display"] = Important("none")
        /\ Parent(kids, P) = EditorContainer
        /\ NextSibling(kids, EditorNode) = P
        /\ Cardinality({c \in Elems : InSeq(P, kids[c])}) = 1

ReactivationKeepsPreview ==
    (~isSplit /\ isSplit' /\ AllFound /\ Parent(kids, P) = EditorContainer) => kids' = kids

C6_NoOverlappingRequests == Len(inFlight) <= 1

Debounced ==
    /\ Len(timers) <= 1
    /\ ~earlyInvoke
    /\ invoked <= 1
    /\ (isSplit /\ observing /\ mutated /\ timers = <<>>) => invoked = 1

MutationRestartsTimer ==
    (observing /\ doc' # doc) => timers' = <<DEBOUNCE_DELAY>>

\* C7: at most one refresh timer is pending, every observed mutation replaces
\* it by a fresh one of DEBOUNCE_DELAY, refreshPreview never runs before
\* DEBOUNCE_DELAY has passed since the last mutation, and once the timer of
\* the last mutation is gone refreshPreview has run exactly once.
C7_Debounce == []Debounced /\ [][MutationRestartsTimer]_vars

C7_Witness ==
    /\ isSplit
    /\ observing
    /\ mutated
    /\ timers = <<>>
    /\ invoked = 1
    /\ sinceMutation = DEBOUNCE_DELAY

\* C8: in README split mode, once editing has stopped, every timer has fired
\* and every request has been answered successfully, the preview shows the
\* HTML rendered from the editor's content.
C8_PreviewCatchesUp ==
    (/\ isSplit
     /\ observing
     /\ mutated
     /\ timers = <<>>
     /\ inFlight = <<>>
     /\ allOk
     /\ ~foreign
     /\ Join(doc) # ""
     /\ QuerySelector(kids, P, PB) # None)
    => previewHtml = Render(Join(doc))

\* C9: a refresh that ends in a failure (exception, non-OK response, no html,
\* empty content) leaves the preview HTML as it was, and the in-flight flag
\* is set only while a request of the current closure is unanswered.
C9_FailedRefreshRecovers ==
    /\ lastOutcome \in Failures => previewHtml = htmlBefore
    /\ isRefreshing => \E i \in 1..Len(inFlight) : inFlight[i].own

C9_Witness ==
    /\ isSplit
    /\ sent
    /\ ~foreign
    /\ lastOutcome = "throws"
    /\ previewHtml = htmlBefore
    /\ ~isRefreshing

DataMissing ==
    LET d == ExtractGitHubData(page)
    IN  ~d.previewUrl \/ ~d.commitOid \/ ~d.fileName \/ ~d.authenticityToken

\* C10: an activation that cannot extract all of preview URL, commit OID,
\* file name and authenticity token, or finds no CodeMirror editor or no
\* README preview area, installs no observer, starts no timer and sends no
\* request, while the wrapper's layout is still applied.
C10_NoRefreshWithoutData ==
    (/\ isSplit
     /\ \/ DataMissing
        \/ QuerySelector(kids, W, CM) = None
        \/ QuerySelector(kids, W, P) = None)
    => /\ ~observing
       /\ timers = <<>>
       /\ ~sent
       /\ W \in DOMAIN originalStyles
       /\ style[O]["display"] = Important("none")
       /\ style[H]["display"] = Important("flex")

C10_Witness ==
    /\ isSplit
    /\ mutated
    /\ page.payload /\ page.parses /\ page.previewEditPath /\ page.currentOid /\ page.fileName
    /\ DataMissing
    /\ QuerySelector(kids, W, CM) # None
    /\ QuerySelector(kids, W, P) # None
    /\ ~observing
    /\ W \in DOMAIN originalStyles

(***************************************************************************)
(* Properties of the content script.                                       *)
(***************************************************************************)
\* C5: every wrapper holds at most one injected control root and is processed
\* by initializeSplitView at most once; a run never changes a wrapper that
\* carries the data-split-view-initialized attribute.
C5_DiscoveryAtMostOnce ==
    /\ []( \A w \in Wrappers : roots[w] <= 1 /\ processed[w] <= 1 )
    /\ [][\A w \in Wrappers :
            (present[w] /\ initialized[w] /\ present'[w]) =>
               (roots'[w] = roots[w] /\ processed'[w] = processed[w])]_vars

C5_Witness ==
    /\ \A w \in Wrappers : present[w] /\ initialized[w] /\ roots[w] = 1
    /\ reinitTimers = 0
    /\ ~debounceTimeout

(***************************************************************************)
(* Properties of the App and the tab-state observer.                       *)
(***************************************************************************)
ControlFollowsReading ==
    /\ rendered.display = "flex" <=> isPreviewActive
    /\ rendered.toolbar <=> isSplit

TabStateOnlyShowsControl ==
    (isPreviewActive' # isPreviewActive \/ marks' # marks \/ activeTab' # activeTab)
        => UNCHANGED <<domVars, layoutVars, refreshVars, discoveryVars>>

ToolbarVisible == rendered.toolbar /\ rendered.display = "flex"

C13_ReadingIsPreviewTab ==
    tabsObserved => (isPreviewActive <=> (activeTab = 2 /\ Selected(marks[2])))

\* C16: a user's click on a host tab button ends split mode: afterwards split
\* mode is off, and if it was on every captured style is written back and the
\* map is empty.
C16_TabClickEndsSplit ==
    [][("tab" \in lastClicks' /\ (lastClicks' # lastClicks \/ isSplit)) =>
          /\ ~isSplit'
          /\ isSplit =>
                /\ originalStyles' = EmptyMap
                /\ \A el \in DOMAIN originalStyles : style'[el] = originalStyles[el]]_vars

C16_Witness ==
    /\ lastClicks = {"tab"}
    /\ ~isSplit
    /\ DOMAIN firstStyle # {}
    /\ DOMAIN originalStyles = {}

\* C17: a click dispatched by clickPreviewTab leaves split mode on, and split
\* mode goes off only in a step in which the user clicked the Split button or
\* a tab.
C17_ScriptClicksKeepSplit ==
    [][/\ "script" \in lastClicks' /\ lastClicks' # lastClicks => isSplit'
       /\ (isSplit /\ ~isSplit') => lastClicks' \cap {"button", "tab"} # {}]_vars

C17_Witness ==
    /\ viewType = "oldpr"
    /\ lastClicks = {"script"}
    /\ isSplit
    /\ previewClick

(***************************************************************************)
(* Properties of the manual formatter.                                     *)
(***************************************************************************)
\* the text the formatter reads as selected in the editor ed
SelectedText(ed) ==
    IF ed.kind = "contenteditable"
    THEN RangeToString(ed.value, ed.selectionStart, ed.selectionEnd)
    ELSE SubSeq(ed.value, ed.selectionStart + 1, ed.selectionEnd)

Clicked == clicks' = clicks + 1

ToggleFormats == {"bold", "italic", "code", "link", "heading", "quote", "ul", "ol", "task"}

\* C14: in a textarea, for every format type with a non-empty prefix and every
\* non-empty selection, clicking the format's button twice gives back the
\* original text and the original selection range.
C14_ToggleRoundTrip ==
    (/\ clicks = 2
     /\ textEditor.kind = "textarea"
     /\ lastFormat \in ToggleFormats
     /\ origin.selectionStart < origin.selectionEnd)
    => /\ textEditor.value = origin.value
       /\ textEditor.selectionStart = origin.selectionStart
       /\ textEditor.selectionEnd = origin.selectionEnd

MultilineFormats == {"quote", "ul", "ol", "task"}

LinePrefix(formatType, k) ==
    IF formatType = "ol" THEN NumberToString(k) \o <<".", " ">>
    ELSE GetFormatSymbols(formatType).prefix

FormattedAsClaimed(selectedText, formatType, text) ==
    IF Includes(selectedText, "\n") /\ formatType \in MultilineFormats
    THEN LET lines == Split(selectedText)
             result == Split(text)
         IN  /\ Len(result) = Len(lines)
             /\ \A k \in 1..Len(lines) : result[k] = LinePrefix(formatType, k) \o lines[k]
    ELSE text = GetFormatSymbols(formatType).prefix \o selectedText
                \o GetFormatSymbols(formatType).suffix

\* C15: whenever a click formats the selection, a selection with a newline
\* under a multi-line format (quote, ul, ol, task) becomes as many lines, line
\* k being "k. " + line for the ordered list and prefix + line otherwise; any
\* other selection becomes prefix + selection + suffix.
C15_MultilineFormatting ==
    [][(Clicked /\ lastPath' = "format")
       => FormattedAsClaimed(SelectedText(textEditor), lastFormat', replacement')]_vars

C15_Witness ==
    /\ clicks = 1
    /\ lastFormat = "ol"
    /\ lastPath = "format"
    /\ replacement = <<"1", ".", " ", "a", "\n", "2", ".", " ", "a">>

\* C18: a click on a format button of a textarea with the selection
\* [start, end) leaves the text before start and the text after end as they
\* were: the new value is beforeText + replacement + afterText, whether the
\* click formats or unformats.
C18_FormatTextFrame ==
    [][(Clicked /\ textEditor.kind = "textarea")
       => LET old == textEditor.value
              new == textEditor'.value
              s == textEditor.selectionStart
              e == textEditor.selectionEnd
          IN  /\ new = SubSeq(old, 1, s) \o replacement' \o SubSeq(old, e + 1, Len(old))
              /\ SubSeq(new, 1, s) = SubSeq(old, 1, s)
              /\ SubSeq(new, Len(new) - (Len(old) - e) + 1, Len(new))
                    = SubSeq(old, e + 1, Len(old))]_vars

C18_Witness ==
    /\ clicks = 2
    /\ textEditor.kind = "textarea"
    /\ lastPath = "unformat"
    /\ 0 < origin.selectionStart
    /\ origin.selectionStart < origin.selectionEnd
    /\ origin.selectionEnd < Len(origin.value)
    /\ textEditor.value = origin.value

SelectionAsClaimed ==
    LET old == textEditor.value
        new == textEditor'
        s == textEditor.selectionStart
        e == textEditor.selectionEnd
        sym == GetFormatSymbols(lastFormat')
    IN  /\ 0 <= new.selectionStart
        /\ new.selectionStart <= new.selectionEnd
        /\ new.selectionEnd <= Len(new.value)
        /\ s = e => /\ new.value = SubSeq(old, 1, s) \o sym.prefix \o sym.suffix
                                    \o SubSeq(old, s + 1, Len(old))
                    /\ new.selectionStart = s + Len(sym.prefix)
                    /\ new.selectionEnd = s + Len(sym.prefix)
        /\ s < e => /\ new.selectionStart = s
                    /\ new.selectionEnd = s + Len(replacement')

\* C19: after a click on a format button, an empty selection at p has had
\* prefix + suffix inserted at p and the caret is at p + prefix.length; a
\* non-empty selection starting at s has become [s, s + length of the text put
\* in its place); the selection always lies within the new text.
C19_SelectionAfterFormatting ==
    [][(Clicked /\ textEditor.kind \in {"textarea", "contenteditable"})
       => SelectionAsClaimed]_vars

\* C20: whenever a click unformats, the text put in place of the selection is
\* the selection without the prefix at its start and the suffix at its end,
\* shorter by prefix.length + suffix.length.
C20_CleanUnformat ==
    [][(Clicked /\ lastPath' = "unformat")
       => LET selectedText == SelectedText(textEditor)
              sym == GetFormatSymbols(lastFormat')
          IN  /\ sym.prefix \o replacement' \o sym.suffix = selectedText
              /\ Len(replacement') = Len(selectedText) - Len(sym.prefix) - Len(sym.suffix)]_vars

\* C21: for every format type and every selected text, formatText,
\* formatContentEditable and formatCodeMirror take the same decision between
\* formatting and unformatting, put the same text in place of the selection
\* and leave the same selection offsets relative to the selection's start.
C21_FormattersAgree ==
    clicks > 0 =>
       \A f \in Formatters, g \in Formatters :
          byFormatter[f].selectedText = byFormatter[g].selectedText
          => byFormatter[f] = byFormatter[g]

C21_Witness ==
    /\ clicks = 2
    /\ lastFormat = "bold"
    /\ \A f \in Formatters :
          /\ byFormatter[f].selectedText = <<"*", "*", "a", "*", "*">>
          /\ byFormatter[f].path = "unformat"
          /\ byFormatter[f].replacement = <<"a">>

\* C22: if the host has replaced the editor element since it was cached, a
\* click on a format button formats the editor that is in the wrapper now, not
\* the detached element in the cache.
C22_StaleCacheFallback ==
    [][(Clicked /\ cache = "stale" /\ FindEditor(kids) # None)
       => /\ formatted' = "current"
          /\ textEditor' = FormatMarkdown(lastFormat', textEditor).editor]_vars

(***************************************************************************)
(* Properties of the height synchronization.                               *)
(***************************************************************************)
TextareaAndPreviewFound ==
    /\ viewType = "issues"
    /\ FindWriteArea(kids) # None
    /\ QuerySelector(kids, FindWriteArea(kids), TA) # None
    /\ FindPreviewArea(kids) # None

HeightsSynchronized ==
    /\ style[TA]["height"] # ""
    /\ style[TA]["max-height"] = style[TA]["height"]
    /\ style[P]["height"] = style[TA]["height"]

\* the length the stylesheet and the content give the textarea
NaturalHeight ==
    Px(IF cssMaxH # 0 THEN cssMaxH ELSE IF scrollH # 0 THEN scrollH ELSE DefaultTextareaHeight)

\* C23: in the Issues/Comments variant, after an activation and after every
\* window resize while split mode is on, the preview area's forced height
\* equals the textarea's forced height and max-height, the value
\* calculateTextareaHeight returned.
C23_HeightsSynchronized ==
    [][(/\ TextareaAndPreviewFound
        /\ isSplit'
        /\ ~isSplit \/ avail' # avail \/ cssMaxH' # cssMaxH)
       => /\ HeightsSynchronized'
          /\ style'[TA]["height"] =
                IF isSplit THEN Px(CalculateTextareaHeight(style, cssMaxH', scrollH))
                ELSE NaturalHeight]_vars

C23_Witness ==
    /\ TextareaAndPreviewFound
    /\ isSplit
    /\ lastClicks = {}
    /\ cssMaxH # 0
    /\ scrollH # cssMaxH
    /\ HeightsSynchronized

\* C24: whenever a wrapper carries data-split-view-initialized="true", a
\* control root has been injected into its tab container.
C24_MarkedImpliesEnhanced ==
    \A w \in Wrappers : (present[w] /\ initialized[w]) => roots[w] >= 1

\* C25: split mode is on only if the host's Preview tab is the active tab.
C25_SplitImpliesPreviewTab == isSplit => activeTab = 2

====
